---- MODULE Spec2Model ----
(***************************************************************************)
(* Model of the exhibitor line-up dashboard (src/app.py): the column       *)
(* normaliser, the 2025 line-up filter, the login gate kept in             *)
(* st.session_state, and get_exhibitor_lineup, the join / group-by / date  *)
(* window that produces the booked and the upcoming tables.                *)
(*                                                                         *)
(* Representation.  Cell texts that the code only compares for equality    *)
(* (Title, Exhibitor, Country, Start_Date, Country_of_Origin) are TLA+     *)
(* strings.  Texts the code searches or builds (column headers, BU, the    *)
(* format labels) are sequences of one-character strings, so substring     *)
(* tests, joins and replacements are computed character by character.      *)
(* A pandas missing value (NaN / NaT / None) is the record Null; a present *)
(* value v of a nullable column is Some(v).  Timestamps are integers:      *)
(* ticks since 2025-01-01 00:00, TicksPerDay ticks to a day.               *)
(***************************************************************************)
EXTENDS Integers, Sequences, FiniteSets, TLC

VARIABLES
  bookings_df,       \* "Bookings Raw Data" as a sequence of rows (line 22)
  lineup_records,    \* "4DPLEX Lineup Clean" as read (line 23)
  lineup_df,         \* the same, dates parsed and 2025-filtered (lines 30, 38)
  today,             \* datetime.today() (line 33)
  logged_in,         \* st.session_state.logged_in
  exhibitor_name,    \* st.session_state.exhibitor_name (Absent: no such key)
  selected_country,  \* st.session_state.selected_country (Absent: no such key)
  login_button,      \* st.button("Login") in the last run
  login_form,        \* the two text inputs as the last "Login" press saw them
  login_error,       \* st.error was shown by the last run
  country_selector,  \* the select box as last drawn: its options and its entry
  exception,         \* the uncaught exception that ended the last run, or "none"
  call,              \* the arguments of get_exhibitor_lineup in the last run,
                     \* Null when that run did not reach the call
  booked_titles,     \* its first result
  upcoming_titles,   \* its second result
  raw_header,        \* one column header as the worksheet has it
  columns,           \* that header in DataFrame.columns
  normalized         \* how many times lines 26-27 were applied to it

tables == <<bookings_df, lineup_records, lineup_df, today>>
session == <<logged_in, exhibitor_name, selected_country>>
form == <<login_button, login_form, login_error>>
page == <<country_selector, exception>>
report == <<call, booked_titles, upcoming_titles>>
header == <<raw_header, columns, normalized>>

vars == <<tables, session, form, page, report, header>>

----------------------------------------------------------------------------
(* Bounds of the model *)

MaxBookings == 2
MaxLineup == 2
MaxHeaderLen == 4
TicksPerDay == 2

----------------------------------------------------------------------------
(* Missing values *)

Null == [null |-> TRUE]
\* a key that st.session_state does not have
Absent == [null |-> TRUE, absent |-> TRUE]
Some(v) == [null |-> FALSE, v |-> v]
notna(x) == ~x.null

----------------------------------------------------------------------------
(* Character-sequence helpers *)

\* s[i..i+Len(sub)-1] = sub
MatchAt(sub, s, i) ==
  /\ i + Len(sub) - 1 <= Len(s)
  /\ \A k \in 1..Len(sub) : s[i + k - 1] = sub[k]

\* Python's `sub in s`
Contains(sub, s) == \E i \in 1..(Len(s) + 1) : MatchAt(sub, s, i)

\* number of positions of s at which sub occurs
Occurrences(sub, s) == Cardinality({i \in 1..Len(s) : MatchAt(sub, s, i)})

RECURSIVE Join(_, _)
\* Python's sep.join(parts)
Join(sep, parts) ==
  IF parts = <<>> THEN <<>>
  ELSE IF Len(parts) = 1 THEN parts[1]
  ELSE parts[1] \o sep \o Join(sep, Tail(parts))

RECURSIVE Unique(_)
\* pandas Series.unique(): the distinct values in order of first appearance
Unique(s) ==
  IF s = <<>> THEN <<>>
  ELSE LET init == Unique(SubSeq(s, 1, Len(s) - 1))
           last == s[Len(s)]
       IN IF \E i \in 1..Len(init) : init[i] = last THEN init
          ELSE Append(init, last)

Range(s) == {s[i] : i \in 1..Len(s)}

----------------------------------------------------------------------------
(* Column normaliser: src/app.py lines 26-27                                *)
(*   columns.str.strip().str.replace(" ", "_").str.replace("\n", "_")       *)

\* characters Python's str.strip() removes, among those of HeaderChars
Whitespace == {" ", "\n", "\t"}

RECURSIVE lstrip(_)
lstrip(s) ==
  IF s # <<>> /\ s[1] \in Whitespace THEN lstrip(Tail(s)) ELSE s

RECURSIVE rstrip(_)
rstrip(s) ==
  IF s # <<>> /\ s[Len(s)] \in Whitespace
  THEN rstrip(SubSeq(s, 1, Len(s) - 1)) ELSE s

\* str.strip()
strip(s) == rstrip(lstrip(s))

\* str.replace(old, new) for a one-character old and a one-character new:
\* every occurrence replaced, position by position
str_replace(s, old, new) ==
  [i \in 1..Len(s) |-> IF s[i] = old THEN new ELSE s[i]]

\* a normaliser that turns a newline into a space instead of an underscore
standardize_newline_to_space(h) ==
  str_replace(str_replace(strip(h), " ", "_"), "\n", " ")

\* one header through line 26 / line 27
standardize(h) ==
  str_replace(str_replace(strip(h), " ", "_"), "\n", "_")

\* the rename of lines 139-140, columns.str.replace("_", " "), tabulated on
\* the column names of the two result tables
display_name(c) ==
  CASE c = "Country_of_Origin" -> "Country of Origin"
    [] c = "Release_Date" -> "Release Date"
    [] c = "Format_s_Booked" -> "Format s Booked"
    [] OTHER -> c

----------------------------------------------------------------------------
(* Line-up filter: src/app.py lines 30-38 *)

\* a First_Release cell of the worksheet: a text that parses to a timestamp,
\* or one that does not
DateCell(t) == [parses |-> TRUE, ticks |-> t]
TextCell == [parses |-> FALSE, ticks |-> 0]

\* pd.to_datetime(cell, errors='coerce')
to_datetime(cell) == IF cell.parses THEN Some(cell.ticks) ELSE Null

\* "2025-01-01" as a timestamp
Cutoff == 0

\* Series >= scalar: a missing value compares False
ge(x, c) == notna(x) /\ x.v >= c

LineupRow(t, fr, o, f4, sx) ==
  [Title |-> t, First_Release |-> fr, Country_of_Origin |-> o]
    @@ ("4DX" :> f4) @@ ("SX" :> sx)

\* line 30: First_Release parsed in place
parse_first_release(records) ==
  [i \in 1..Len(records) |->
     LineupRow(records[i].Title, to_datetime(records[i].First_Release),
               records[i].Country_of_Origin, records[i]["4DX"], records[i]["SX"])]

\* a filter that keeps every parsed row, whatever its year
keep_all_years(records) == parse_first_release(records)

\* lines 30 and 38: the line-up table the rest of the script sees
filter_2025(records) ==
  LET parsed == parse_first_release(records)
      Keep(r) == ge(r.First_Release, Cutoff)
  IN SelectSeq(parsed, Keep)

----------------------------------------------------------------------------
(* Date window: src/app.py lines 33-35 *)

DaysBack == 30
DaysAhead == 90

one_month_ago(tdy) == tdy - DaysBack * TicksPerDay
three_months_ahead(tdy) == tdy + DaysAhead * TicksPerDay

\* Series.between(lo, hi), inclusive="both"; a missing value is False
between(x, lo, hi) == notna(x) /\ lo <= x.v /\ x.v <= hi

----------------------------------------------------------------------------
(* Report builder: src/app.py lines 104-142 *)

M244DX == <<"M", "2", "4", "4", "D", "X">>
M24SCX == <<"M", "2", "4", "S", "C", "X">>
Label4DX == <<"4", "D", "X">>
LabelScreenX == <<"S", "c", "r", "e", "e", "n", "X">>
NotBooked == <<"N", "o", "t", " ", "B", "o", "o", "k", "e", "d">>
CommaSpace == <<",", " ">>
\* the one-character text U+2014 (em dash)
EmDash == <<"U+2014">>
Sentinel == "-"
ExcludedOrigins == {"China", "Vietnam"}

\* str(x) of a BU value
str(x) == IF notna(x) THEN x.v ELSE <<"n", "a", "n">>

\* a selection by country alone
exhibitor_rows_country_only(bk, e, c) ==
  LET Keep(b) == notna(c) /\ b.Country = c.v
  IN SelectSeq(bk, Keep)

\* lines 105-107; c is Null when the select box had no option to return,
\* and Country == None matches no row
exhibitor_rows(bk, e, c) ==
  LET Keep(b) == b.Exhibitor = e /\ notna(c) /\ b.Country = c.v
  IN SelectSeq(bk, Keep)

\* the rows one line-up row contributes to the left join
joined_rows(l, ed) ==
  LET Same(b) == b.Title = l.Title
      m == SelectSeq(ed, Same)
  IN IF m = <<>>
     THEN << l @@ [Exhibitor |-> Null, Country |-> Null,
                   Start_Date |-> Null, BU |-> Null] >>
     ELSE [i \in 1..Len(m) |->
             l @@ [Exhibitor |-> Some(m[i].Exhibitor), Country |-> Some(m[i].Country),
                   Start_Date |-> Some(m[i].Start_Date), BU |-> Some(m[i].BU)]]

RECURSIVE merge_left(_, _)
\* line 109: lineup_df.merge(exhibitor_data, on="Title", how="left")
merge_left(ln, ed) ==
  IF ln = <<>> THEN <<>>
  ELSE joined_rows(ln[1], ed) \o merge_left(Tail(ln), ed)

\* line 111
release_date(row) == IF notna(row.Start_Date) THEN row.Start_Date.v ELSE Sentinel

\* lines 113-119
format_bookings(row) ==
  LET bu == str(row.BU)
      formats == (IF Contains(M244DX, bu) THEN <<Label4DX>> ELSE <<>>)
                 \o (IF Contains(M24SCX, bu) THEN <<LabelScreenX>> ELSE <<>>)
  IN IF formats # <<>> THEN Join(CommaSpace, formats) ELSE NotBooked

\* lines 111 and 121: the two derived columns
with_derived(merged) ==
  [i \in 1..Len(merged) |->
     merged[i] @@ [Release_Date |-> release_date(merged[i]),
                   Format_s_Booked |-> format_bookings(merged[i])]]

\* the titles of the model in the order groupby(sort=True) puts them
SortedTitles == <<"Movie1", "Movie2">>

\* GroupBy "first": the first value of the group (no value of these columns
\* is missing once Release_Date != "-" has been applied)
first(values) == values[1]

\* an aggregation that keeps only the first row's label
formats_agg_first(labels) == labels[1]

\* line 129: ", ".join(filter(lambda v: v != EmDash, x.unique()))
formats_agg(labels) ==
  LET Keep(v) == v # EmDash
  IN Join(CommaSpace, SelectSeq(Unique(labels), Keep))

\* line 124: merged[merged["Release_Date"] != "-"]
booked_rows(rows) ==
  LET Keep(r) == r.Release_Date # Sentinel
  IN SelectSeq(rows, Keep)

\* lines 123-131 and 139: one row per title, in sorted title order
aggregate_booked(rows) ==
  LET sel == booked_rows(rows)
      Has(t) == \E i \in 1..Len(sel) : sel[i].Title = t
      keys == SelectSeq(SortedTitles, Has)
  IN [k \in 1..Len(keys) |->
        LET Of(r) == r.Title = keys[k]
            g == SelectSeq(sel, Of)
        IN ("Title" :> keys[k])
           @@ (display_name("Country_of_Origin") :>
                 first([i \in 1..Len(g) |-> g[i].Country_of_Origin]))
           @@ (display_name("Release_Date") :>
                 first([i \in 1..Len(g) |-> g[i].Release_Date]))
           @@ (display_name("Format_s_Booked") :>
                 formats_agg([i \in 1..Len(g) |-> g[i].Format_s_Booked]))]

\* Series.isin(values)
isin(v, values) == \E i \in 1..Len(values) : values[i] = v

\* a title test that lets booked titles through
unbooked_any(title, booked) == TRUE

\* line 134
unbooked(title, booked) ==
  ~isin(title, [i \in 1..Len(booked) |-> booked[i]["Title"]])

\* an origin test that forgets China
origin_allowed_china(origin) == origin # "Vietnam"

\* line 136
origin_allowed(origin) == origin \notin ExcludedOrigins

\* lines 133-137 and 140
select_upcoming(ln, booked, tdy) ==
  LET Keep(l) == /\ unbooked(l.Title, booked)
                 /\ between(l.First_Release, one_month_ago(tdy), three_months_ahead(tdy))
                 /\ origin_allowed(l.Country_of_Origin)
      sel == SelectSeq(ln, Keep)
      proj == [i \in 1..Len(sel) |->
                 ("Title" :> sel[i].Title)
                 @@ (display_name("Country_of_Origin") :> sel[i].Country_of_Origin)
                 @@ ("4DX" :> sel[i]["4DX"]) @@ ("SX" :> sel[i]["SX"])]
  IN Unique(proj)

\* lines 104-142
get_exhibitor_lineup(bk, ln, tdy, e, c) ==
  LET exhibitor_data == exhibitor_rows(bk, e, c)
      merged == with_derived(merge_left(ln, exhibitor_data))
      booked == aggregate_booked(merged)
  IN [booked |-> booked, upcoming |-> select_upcoming(ln, booked, tdy)]

----------------------------------------------------------------------------
(* Inputs: the two worksheets and the clock *)

\* the day of the run, in days since 2025-01-01
TodayDay == 100

Day(d) == d * TicksPerDay

\* datetime.today(): at midnight, or later in the day
Todays == {Day(TodayDay), Day(TodayDay) + 1}

Booking(e, c, t, sd, bu) ==
  [Exhibitor |-> e, Country |-> c, Title |-> t, Start_Date |-> sd, BU |-> bu]

\* rows that come and go in "Bookings Raw Data" while a session runs;
\* get_all_records yields "" for an empty cell, never a missing value
SheetBookingRows ==
  { Booking("CGV", "Korea", "Movie1", "2025-03-01", M244DX),
    Booking("CGV", "Mexico", "Movie1", "2025-03-01", M24SCX),
    Booking("Cinepolis", "Korea", "Movie2", "", <<"M", "2", "4", "2", "D">>) }

\* rows of "Bookings Raw Data"
BookingRows ==
  SheetBookingRows \cup
  { Booking("CGV", "Korea", "Movie1", "2025-03-08", M244DX \o <<"/">> \o M24SCX),
    Booking("CGV", "Korea", "Movie1", "-", M24SCX) }

\* rows that come and go in "4DPLEX Lineup Clean" while a session runs
SheetLineupRecords ==
  { LineupRow("Movie1", DateCell(Day(TodayDay + DaysAhead)), "USA", "Y", "Y"),
    LineupRow("Movie2", DateCell(Day(TodayDay - DaysBack)), "USA", "Y", "N") }

\* rows of "4DPLEX Lineup Clean"
LineupRecords ==
  SheetLineupRecords \cup
  { LineupRow("Movie1", DateCell(Day(0 - 1)), "USA", "Y", "N"),
    LineupRow("Movie2", DateCell(Day(TodayDay + DaysAhead + 1)), "Korea", "N", "Y"),
    LineupRow("Movie2", DateCell(Day(TodayDay)), "China", "Y", "Y"),
    LineupRow("Movie2", DateCell(Day(TodayDay)), "Vietnam", "Y", "Y"),
    LineupRow("Movie2", TextCell, "USA", "Y", "Y") }

\* the non-empty tables of at most n rows
Tables(rows, n) == UNION {[1..k -> rows] : k \in 1..n}

\* the tables that hold distinct rows of a set, one or more, in any order
Arrangements(rows) ==
  {t \in Tables(rows, Cardinality(rows)) :
     \A i, j \in 1..Len(t) : t[i] = t[j] => i = j}

\* what a run of the script may find in "Bookings Raw Data" (line 22): any
\* of the rows, the two rows of CGV in either order, the row of Cinepolis
\* below them.  A worksheet with no data row has no Exhibitor column to
\* read and is left out
SheetBookings ==
  {t \in Arrangements(SheetBookingRows) :
     \A i \in 1..Len(t) : t[i].Exhibitor = "Cinepolis" => i = Len(t)}

\* what a run of the script may find in "4DPLEX Lineup Clean" (line 23): any
\* of the rows, the row of Movie1 above the row of Movie2.  A worksheet with
\* no data row has no First_Release column to read and is left out
SheetLineups ==
  {t \in Arrangements(SheetLineupRecords) :
     \A i \in 1..Len(t) : t[i].Title = "Movie1" => i = 1}

\* what the caller of get_exhibitor_lineup may pass
ExhibitorArgs == {"CGV", "Cinepolis"}
CountryArgs == {"Korea", "Mexico"}

\* what a visitor may type
NameInputs == {"CGV", "Cinepolis", "Nobody"}
PasswordInputs == {"2025", "2024"}

HeaderChars == {"a", "_", " ", "\n", "\t"}
Headers == UNION {[1..k -> HeaderChars] : k \in 0..MaxHeaderLen}
FirstReleaseHeader ==
  <<"F", "i", "r", "s", "t", " ", "R", "e", "l", "e", "a", "s", "e">>

----------------------------------------------------------------------------
(* State after the script's first run down to line 47 *)

\* the widgets and the page before any interaction
InitWidgets ==
  /\ login_button = FALSE
  /\ login_form = Null
  /\ login_error = FALSE
  /\ country_selector = Null
  /\ exception = "none"

\* lines 44-47 run through
FreshSession ==
  /\ logged_in = FALSE
  /\ exhibitor_name = Null
  /\ selected_country = Null
  /\ InitWidgets

\* lines 44-47 of the first run of a session that got as far as line 45.
\* Each of lines 46 and 47 is an access of st.session_state at which
\* Streamlit can end the run; line 44 is false on every later run, so a key
\* the first run did not write stays absent
InitSession ==
  /\ logged_in = FALSE
  /\ exhibitor_name \in {Absent, Null}
  /\ selected_country \in {Absent, Null}
  /\ exhibitor_name = Absent => selected_country = Absent
  /\ InitWidgets

InitReport ==
  /\ call = Null
  /\ booked_titles = <<>>
  /\ upcoming_titles = <<>>

\* lines 26-27 on the header of the First_Release column
InitHeader ==
  /\ raw_header = FirstReleaseHeader
  /\ columns = standardize(raw_header)
  /\ normalized = 1

\* the first run of a session: both worksheets read, nobody logged in
Init ==
  /\ bookings_df \in SheetBookings
  /\ lineup_records \in SheetLineups
  /\ lineup_df = filter_2025(lineup_records)
  /\ today \in Todays
  /\ InitSession
  /\ InitReport
  /\ InitHeader

----------------------------------------------------------------------------
(* get_exhibitor_lineup as a function of its arguments and of the globals   *)
(* it reads                                                                 *)

InitFn ==
  /\ bookings_df \in Tables(BookingRows, MaxBookings)
  /\ lineup_records \in Tables(LineupRecords, MaxLineup)
  /\ lineup_df = filter_2025(lineup_records)
  /\ today \in Todays
  /\ FreshSession
  /\ InitReport
  /\ InitHeader

Call(e, c) ==
  LET r == get_exhibitor_lineup(bookings_df, lineup_df, today, e, Some(c))
  IN /\ call' = Some([exhibitor |-> e, country |-> Some(c)])
     /\ booked_titles' = r.booked
     /\ upcoming_titles' = r.upcoming
     /\ UNCHANGED <<tables, session, form, page, header>>

NextFn == \E e \in ExhibitorArgs, c \in CountryArgs : Call(e, c)

SpecFn == InitFn /\ [][NextFn]_vars

----------------------------------------------------------------------------
(* The Streamlit script, run from line 1 on every widget interaction *)

\* what datetime.today() may return at the next run
Later(t) == {u \in Todays : u >= t}

\* lines 17-38: both worksheets read again, whatever they hold by now,
\* lineup_df rebuilt, the clock read again
Load(bk, recs, t) ==
  /\ bookings_df' = bk
  /\ lineup_records' = recs
  /\ lineup_df' = filter_2025(recs)
  /\ today' = t
  /\ raw_header' = raw_header
  /\ columns' = standardize(raw_header)
  /\ normalized' = 1

\* bookings_df["Exhibitor"].unique()
known_exhibitors(bk) == Unique([i \in 1..Len(bk) |-> bk[i].Exhibitor])

\* line 84
credentials_ok(bk, name, password) ==
  password = "2025" /\ isin(name, known_exhibitors(bk))

\* a login form that is drawn on every run
login_section_always(li) == TRUE

\* line 79: the login form is drawn, and its button can be pressed
login_section_shown(li) == ~li

\* line 95
exhibitor_countries(bk, name) ==
  LET Mine(b) == b.Exhibitor = name
      mine == SelectSeq(bk, Mine)
  IN Unique([i \in 1..Len(mine) |-> mine[i].Country])

\* where a run of the script ends.  Streamlit ends a run at a call into st.*
\* and at an access of st.session_state when the next run is already asked
\* for; the statement at which the run ends is not executed.  The ends that
\* differ in what the run has done:
\*   "logged_in"      at the write of line 85: the press is read and the
\*                    check of line 84 passed, nothing is written;
\*   "exhibitor_name" at the write of line 86: logged_in is written;
\*   "error"          at st.error (line 88): the check failed, no error shown;
\*   "success"        at lines 91-99, before the write of line 99: nothing
\*                    of the block of line 91 is done;
\*   "selectbox"      at st.selectbox (line 101), before the box is
\*                    registered: line 99 is done;
\*   "call"           at the read of st.session_state in line 145: the box
\*                    is drawn, get_exhibitor_lineup is not called;
\*   "end"            after the call of line 145.
Ends ==
  {"logged_in", "exhibitor_name", "error", "success", "selectbox", "call", "end"}

\* the ends within the login section
LoginEnds == {"logged_in", "exhibitor_name", "error"}

\* the state of the select box's widget
Box(options, value) == Some([options |-> options, value |-> value])

\* line 101: what the select box returns.  held is the widget state the run
\* starts with (Null when there is none).  With no option it returns None;
\* with the options it was last drawn with it returns the entry it holds;
\* with other options it returns option 0, or the entry when it is still an
\* option
selectbox(options, held) ==
  IF options = <<>> THEN {Null}
  ELSE IF notna(held) /\ held.v.options = options /\ notna(held.v.value)
       THEN {held.v.value}
  ELSE {Some(options[1])}
       \cup {held.v.value : h \in {x \in {held} :
               /\ notna(x)
               /\ notna(x.v.value)
               /\ isin(x.v.value.v, options)}}

\* the widget state after a run that did not draw the box: Streamlit keeps
\* it, or drops it with the widgets the run did not draw
undrawn(held) == {held, Null}

\* a run that did not reach line 145 has no report
no_report ==
  /\ call' = Null
  /\ booked_titles' = <<>>
  /\ upcoming_titles' = <<>>

\* a run that ended above the select box, or skipped the block of line 91:
\* no key written, no box drawn, no report
no_display(held) ==
  /\ UNCHANGED selected_country
  /\ country_selector' \in undrawn(held)
  /\ no_report

\* line 95; a name that is None matches no row
exhibitor_options(bk, name) ==
  IF notna(name) THEN exhibitor_countries(bk, name.v) ELSE <<>>

\* lines 91-145: the block run when the session is logged in, on the tables
\* bk, ln and the clock t of this run, up to where the run ends.  name is
\* st.session_state.exhibitor_name as the login section left it
Display(bk, ln, t, name, held, end) ==
  LET options == exhibitor_options(bk, name)
  IN IF end = "success"
     THEN /\ exception' = "none"
          /\ no_display(held)
     ELSE IF name = Absent \/ selected_country = Absent
     THEN \* line 92 or line 98: a key the first run did not write
          /\ exception' = "AttributeError"
          /\ no_display(held)
     ELSE IF selected_country = Null /\ options = <<>>
     THEN \* line 99: exhibitor_countries[0] of an empty array
          /\ exception' = "IndexError"
          /\ no_display(held)
     ELSE /\ selected_country' =
               IF selected_country = Null THEN Some(options[1])
               ELSE selected_country
          /\ exception' = "none"
          /\ IF end = "selectbox"
             THEN /\ country_selector' \in undrawn(held)
                  /\ no_report
             ELSE \E picked \in selectbox(options, held) :
                    /\ country_selector' = Box(options, picked)
                    /\ IF end = "call"
                       THEN no_report
                       ELSE LET r == get_exhibitor_lineup(bk, ln, t, name.v, picked)
                            IN /\ call' = Some([exhibitor |-> name.v,
                                                country |-> picked])
                               /\ booked_titles' = r.booked
                               /\ upcoming_titles' = r.upcoming

\* the rest of a run below the login section, which left the session with
\* li and name
below_login(bk, ln, t, li, name, held, end) ==
  IF li /\ end \notin LoginEnds
  THEN Display(bk, ln, t, name, held, end)
  ELSE /\ exception' = "none"
       /\ no_display(held)

\* a run started by pressing "Login" with the two text inputs filled in:
\* the login section (lines 79-88), then the block of line 91, up to where
\* the run ends.  A run that ends before st.button (line 83) has read the
\* press does what Rerun does
LoginClick(name, password, end) ==
  /\ login_section_shown(logged_in)
  /\ \E bk \in SheetBookings,
        recs \in SheetLineups,
        t \in Later(today) :
       /\ Load(bk, recs, t)
       /\ login_button' = TRUE
       /\ login_form' = Some([name |-> name, password |-> password])
       /\ IF credentials_ok(bk, name, password)
          THEN /\ end # "error"
               /\ logged_in' = IF end = "logged_in" THEN logged_in ELSE TRUE
               /\ exhibitor_name' =
                    IF end \in LoginEnds THEN exhibitor_name ELSE Some(name)
               /\ login_error' = FALSE
          ELSE /\ end \notin {"logged_in", "exhibitor_name"}
               /\ logged_in \/ end \in {"error", "end"}
               /\ login_error' = (end # "error")
               /\ UNCHANGED <<logged_in, exhibitor_name>>
       /\ below_login(bk, filter_2025(recs), t, logged_in', exhibitor_name',
                      country_selector, end)

\* a run in which "Login" is not pressed: st.button returns False, nothing
\* is checked and no error is shown; held is the select box's widget state
\* at the start of the run
run_without_press(held) ==
  \E bk \in SheetBookings,
     recs \in SheetLineups,
     t \in Later(today),
     end \in IF logged_in THEN Ends \ LoginEnds ELSE {"end"} :
    /\ Load(bk, recs, t)
    /\ login_button' = FALSE
    /\ login_error' = FALSE
    /\ UNCHANGED <<logged_in, exhibitor_name, login_form>>
    /\ below_login(bk, filter_2025(recs), t, logged_in, exhibitor_name,
                   held, end)

\* a run started by committing one of the two text inputs
TextCommit ==
  /\ login_section_shown(logged_in)
  /\ run_without_press(country_selector)

\* a run started by choosing an entry of the "Filter by Country:" select box
\* of the page
SelectCountry(choice) ==
  /\ logged_in
  /\ notna(country_selector)
  /\ isin(choice, country_selector.v.options)
  /\ run_without_press(Box(country_selector.v.options, Some(choice)))

\* a run started with no widget changed (the Rerun command, the R key, a
\* reconnect)
Rerun == run_without_press(country_selector)

Next ==
  \/ \E name \in NameInputs, password \in PasswordInputs, end \in Ends :
       LoginClick(name, password, end)
  \/ TextCommit
  \/ \E choice \in CountryArgs : SelectCountry(choice)
  \/ Rerun

Spec == Init /\ [][Next]_vars

----------------------------------------------------------------------------
(* The column normaliser applied to a header, and applied again *)

MaxNormalize == 2

InitNorm ==
  /\ raw_header \in Headers
  /\ columns = raw_header
  /\ normalized = 0
  /\ bookings_df = <<>>
  /\ lineup_records = <<>>
  /\ lineup_df = <<>>
  /\ today = Day(TodayDay)
  /\ FreshSession
  /\ InitReport

Standardize ==
  /\ normalized < MaxNormalize
  /\ columns' = standardize(columns)
  /\ normalized' = normalized + 1
  /\ UNCHANGED raw_header
  /\ UNCHANGED <<tables, session, form, page, report>>

NextNorm == Standardize

SpecNorm == InitNorm /\ [][NextNorm]_vars

----------------------------------------------------------------------------
(* Vocabulary of the properties, written from the tables and not from the   *)
(* operators above                                                          *)

Called == notna(call)

BookedTitles == {booked_titles[i]["Title"] : i \in 1..Len(booked_titles)}
UpcomingTitles == {upcoming_titles[i]["Title"] : i \in 1..Len(upcoming_titles)}

\* the worksheet rows whose First_Release parses to a date on or after
\* 2025-01-01
Lineup2025 ==
  {i \in 1..Len(lineup_records) :
     /\ lineup_records[i].First_Release.parses
     /\ lineup_records[i].First_Release.ticks >= Cutoff}

\* the bookings rows of the exhibitor and the country of the call
SelectedBookings ==
  {i \in 1..Len(bookings_df) :
     /\ bookings_df[i].Exhibitor = call.v.exhibitor
     /\ notna(call.v.country)
     /\ bookings_df[i].Country = call.v.country.v}

\* the displayed projection of a worksheet row
Projection(r) ==
  ("Title" :> r.Title) @@ ("Country of Origin" :> r.Country_of_Origin)
  @@ ("4DX" :> r["4DX"]) @@ ("SX" :> r["SX"])

InWindow(t) == today - 30 * TicksPerDay <= t /\ t <= today + 90 * TicksPerDay

\* the calendar day of a timestamp
DateOf(t) == t \div TicksPerDay

\* C1: the booked table and the upcoming table of one call share no title.
C1_NoTitleInBoth ==
  Called => BookedTitles \cap UpcomingTitles = {}

\* C1 witness: a booked title whose line-up row lies in the window with an
\* allowed origin, next to a non-empty upcoming table.
C1_Witness ==
  /\ Called
  /\ upcoming_titles # <<>>
  /\ \E i \in Lineup2025 :
       /\ lineup_records[i].Title \in BookedTitles
       /\ InWindow(lineup_records[i].First_Release.ticks)
       /\ lineup_records[i].Country_of_Origin \notin {"China", "Vietnam"}

\* C6: no row of the upcoming table has origin China or Vietnam.
C6_NoExcludedOrigin ==
  Called =>
    \A k \in 1..Len(upcoming_titles) :
      upcoming_titles[k]["Country of Origin"] \notin {"China", "Vietnam"}

\* C6 witness: an unbooked China row dated inside the window was there to be
\* left out, and other rows were let through.
C6_Witness ==
  /\ Called
  /\ upcoming_titles # <<>>
  /\ \E i \in Lineup2025 :
       /\ lineup_records[i].Country_of_Origin = "China"
       /\ InWindow(lineup_records[i].First_Release.ticks)
       /\ lineup_records[i].Title \notin BookedTitles

\* C7: when no bookings row matches the exhibitor and the country, the booked
\* table is empty and the upcoming table holds exactly the projections of the
\* 2025 line-up rows that lie in the window and have an allowed origin.
C7_NoBookings ==
  (Called /\ SelectedBookings = {}) =>
    /\ booked_titles = <<>>
    /\ Range(upcoming_titles) =
         {Projection(lineup_records[i]) :
            i \in {j \in Lineup2025 :
                     /\ InWindow(lineup_records[j].First_Release.ticks)
                     /\ lineup_records[j].Country_of_Origin \notin {"China", "Vietnam"}}}

\* C7 witness: nothing matches the call although another exhibitor booked a
\* title of the 2025 line-up, and the upcoming table is not empty.
C7_Witness ==
  /\ Called
  /\ SelectedBookings = {}
  /\ upcoming_titles # <<>>
  /\ \E j \in 1..Len(bookings_df), i \in Lineup2025 :
       /\ bookings_df[j].Title = lineup_records[i].Title
       /\ bookings_df[j].Country = call.v.country.v
       /\ bookings_df[j].Start_Date # "-"

\* C8: every booked title is the title of a 2025 line-up row and of a selected
\* bookings row that carries a start date, and no booked row shows the
\* sentinel "-" as its release date.
C8_BookedIsJoined ==
  Called =>
    \A k \in 1..Len(booked_titles) :
      /\ \E i \in Lineup2025 : lineup_records[i].Title = booked_titles[k]["Title"]
      /\ \E j \in SelectedBookings :
           /\ bookings_df[j].Title = booked_titles[k]["Title"]
           /\ bookings_df[j].Start_Date # "-"
      /\ booked_titles[k]["Release Date"] # "-"

\* C8 witness: a selected booking with a start date names a title whose only
\* line-up rows are dated before 2025, and the title is not booked.
C8_Witness ==
  /\ Called
  /\ \E j \in SelectedBookings :
       /\ bookings_df[j].Start_Date # "-"
       /\ bookings_df[j].Title \notin BookedTitles
       /\ \E i \in 1..Len(lineup_records) :
            lineup_records[i].Title = bookings_df[j].Title
       /\ \A i \in Lineup2025 : lineup_records[i].Title # bookings_df[j].Title

\* the markers a BU text carries, as the labels they stand for
Markers(bu) ==
  (IF Contains(M244DX, bu) THEN {Label4DX} ELSE {})
  \cup (IF Contains(M24SCX, bu) THEN {LabelScreenX} ELSE {})

\* the selected bookings rows of title t that carry a start date
Dated(t) ==
  {j \in SelectedBookings :
     bookings_df[j].Title = t /\ bookings_df[j].Start_Date # "-"}

\* title t has a derived Release_Date other than "-"
HasRelease(t) ==
  /\ \E i \in Lineup2025 : lineup_records[i].Title = t
  /\ Dated(t) # {}

BookedRowsOf(t) == {k \in 1..Len(booked_titles) : booked_titles[k]["Title"] = t}

\* C2 as stated: a title with a release date is booked exactly once, and its
\* formats hold every marker of any bookings row of the exhibitor for it.
C2_AllRowsOfExhibitor ==
  Called =>
    \A r \in 1..Len(bookings_df) :
      (bookings_df[r].Exhibitor = call.v.exhibitor /\ HasRelease(bookings_df[r].Title)) =>
        /\ Cardinality(BookedRowsOf(bookings_df[r].Title)) = 1
        /\ \A k \in BookedRowsOf(bookings_df[r].Title), j \in 1..Len(bookings_df) :
             (/\ bookings_df[j].Exhibitor = call.v.exhibitor
              /\ bookings_df[j].Title = bookings_df[r].Title) =>
               \A m \in Markers(bookings_df[j].BU) :
                 Contains(m, booked_titles[k]["Format s Booked"])

\* C2 amended: a title with a release date is booked exactly once, and its
\* formats hold every marker of the exhibitor's rows for it in the selected
\* country whose Start_Date is not "-".
C2_SelectedDatedRows ==
  Called =>
    \A r \in 1..Len(bookings_df) :
      (bookings_df[r].Exhibitor = call.v.exhibitor /\ HasRelease(bookings_df[r].Title)) =>
        /\ Cardinality(BookedRowsOf(bookings_df[r].Title)) = 1
        /\ \A k \in BookedRowsOf(bookings_df[r].Title), j \in Dated(bookings_df[r].Title) :
             \A m \in Markers(bookings_df[j].BU) :
               Contains(m, booked_titles[k]["Format s Booked"])

\* C2 witness: two dated selected rows of one title, the second adding a
\* marker the first lacks, and the booked row shows both labels.
C2_Witness ==
  /\ Called
  /\ \E k \in 1..Len(booked_titles) :
       /\ Contains(Label4DX, booked_titles[k]["Format s Booked"])
       /\ Contains(LabelScreenX, booked_titles[k]["Format s Booked"])
       /\ \E j1, j2 \in Dated(booked_titles[k]["Title"]) :
            /\ j1 < j2
            /\ Markers(bookings_df[j1].BU) # Markers(bookings_df[j2].BU)

\* C10 as stated: each of the labels 4DX and ScreenX occurs at most once in
\* the formats text of a booked row.
C10_LabelsOnce ==
  Called =>
    \A k \in 1..Len(booked_titles) :
      /\ Occurrences(Label4DX, booked_titles[k]["Format s Booked"]) <= 1
      /\ Occurrences(LabelScreenX, booked_titles[k]["Format s Booked"]) <= 1

\* C5 as stated, the release date being a calendar day: an unbooked 2025 row
\* of allowed origin dated today - 30 days or today + 90 days is in the
\* upcoming table, and one dated a day further out is not.
C5_WindowInclusive ==
  Called =>
    \A i \in Lineup2025 :
      (/\ lineup_records[i].Title \notin BookedTitles
       /\ lineup_records[i].Country_of_Origin \notin {"China", "Vietnam"}) =>
        LET d == DateOf(lineup_records[i].First_Release.ticks)
            td == DateOf(today)
            shown == Projection(lineup_records[i]) \in Range(upcoming_titles)
            alone == \A j \in Lineup2025 :
                       Projection(lineup_records[j]) = Projection(lineup_records[i])
                         => lineup_records[j] = lineup_records[i]
        IN /\ (d = td - 30 \/ d = td + 90) => shown
           /\ ((d = td - 31 \/ d = td + 91) /\ alone) => ~shown

\* the distinct Exhibitor values of the bookings table
SheetExhibitors == {bookings_df[i].Exhibitor : i \in 1..Len(bookings_df)}

\* C3: a run in which "Login" is pressed in state LoggedOut logs the typed
\* name in exactly when the password is "2025" and the name is an Exhibitor
\* value of the bookings table the run read; any other press leaves
\* logged_in, exhibitor_name and selected_country as they were.  Lines 85 and
\* 86 are two writes with a point between them at which the run can end, so
\* a valid press can leave logged_in True with no exhibitor_name, or
\* nothing written at all.
C3_LoginExactlyWhenValid ==
  [][ (~logged_in /\ login_button') =>
        IF /\ login_form'.v.password = "2025"
           /\ login_form'.v.name \in
                {bookings_df'[i].Exhibitor : i \in 1..Len(bookings_df')}
        THEN /\ logged_in'
             /\ exhibitor_name' = Some(login_form'.v.name)
        ELSE /\ ~logged_in'
             /\ exhibitor_name' = exhibitor_name
             /\ selected_country' = selected_country ]_vars

\* C4: once logged in, the session stays logged in under the same name.
C4_NoLogout ==
  [][ logged_in => (logged_in' /\ exhibitor_name' = exhibitor_name) ]_vars

\* C4 witness: a session logged in by a run that ended at st.success, before
\* a country was stored; a later run found the exhibitor gone from the
\* bookings sheet, raised IndexError at line 99, and kept the login.
C4_Witness ==
  /\ logged_in
  /\ exception = "IndexError"
  /\ selected_country = Null
  /\ ~Called
  /\ notna(exhibitor_name)
  /\ exhibitor_name.v \notin SheetExhibitors

\* C9: normalising a normalised header returns it unchanged.
C9_Idempotent ==
  [][ normalized >= 1 => columns' = columns ]_vars

\* C9 witness: a header that the first pass changed, normalised twice, with
\* an inner tab left next to an underscore.
C9_Witness ==
  /\ normalized = 2
  /\ columns # raw_header
  /\ Contains(<<"_", "\t">>, columns)

====
